---- MODULE Spec2Model ----
(***************************************************************************)
(* Model of load-quality.py: the batch loader batch_insert_cms_data that   *)
(* inserts CMS hospital quality rows into HospitalQualityDetails and, on a *)
(* foreign-key violation, backfills HospitalSpecificDetails and retries.   *)
(*                                                                         *)
(* One step of the model is one database transaction of the loader (the    *)
(* committed states of the database are the states of the model), or one   *)
(* new invocation of the script against the same database.                 *)
(***************************************************************************)
EXTENDS Integers, Sequences, FiniteSets, TLC

(* ------------------------------ bounds -------------------------------- *)

\* longest processed record sequence handed to the loader
MaxLen == 3

\* largest batch_size tried
MaxBatch == 2

\* most non-foreign-key database errors injected over a behaviour
MaxFaults == 2

(* ------------------------------ data ---------------------------------- *)

\* hospital_pk values (already filtered by process_cms_data)
Keys == {"010001", "010005"}

\* load dates (sys.argv[1])
Dates == {"2021-07-01", "2021-10-01"}

\* what a CSV row says about a hospital: hospital_name stands for the five
\* columns of HospitalSpecificDetails besides the key (name, address, city,
\* zip, state), hospital_overall_rating for the three of
\* HospitalQualityDetails besides the key and the date (rating, ownership,
\* emergency_services)
Payloads == {[hospital_name |-> "GEN HOSP", hospital_overall_rating |-> 4],
             [hospital_name |-> "GENERAL HOSPITAL", hospital_overall_rating |-> 5]}

\* the name under which the hospitals already in HospitalSpecificDetails
\* were loaded; the file may give the same hospital this name or the other
KnownName == "GEN HOSP"

\* one row of the processed DataFrame
Record(k, p, d) ==
    [hospital_pk |-> k, last_updated |-> d,
     hospital_overall_rating |-> p.hospital_overall_rating,
     hospital_name |-> p.hospital_name]

\* the processed DataFrames of at most MaxLen rows, all rows carrying the
\* load date d (data['last_updated'] = last_updated)
DataFrames(d) ==
    UNION {[1..n -> {Record(k, p, d) : k \in Keys, p \in Payloads}] : n \in 0..MaxLen}

BatchSizes == 1..MaxBatch

(* --------------------------- the database ----------------------------- *)

\* the tuple of quality_values built from a row
QualityValues(row) ==
    [hospital_pk |-> row.hospital_pk, last_updated |-> row.last_updated,
     hospital_overall_rating |-> row.hospital_overall_rating]

\* the tuple of static_values built from a row
StaticValues(row) ==
    [hospital_pk |-> row.hospital_pk, hospital_name |-> row.hospital_name]

\* quality_values of a batch
QualityList(batch_df) == [i \in 1..Len(batch_df) |-> QualityValues(batch_df[i])]

\* variant: only the first row of the batch is backfilled
StaticListFirstRow(batch_df) ==
    IF Len(batch_df) = 0 THEN <<>> ELSE <<StaticValues(batch_df[1])>>

\* static_values of a batch
StaticList(batch_df) == [i \in 1..Len(batch_df) |-> StaticValues(batch_df[i])]

\* variant: the insert has no ON CONFLICT clause that sees the existing row
QualityConflictNever(q, v) == FALSE

\* ON CONFLICT (hospital_pk, last_updated): a row with this pair exists
QualityConflict(q, v) ==
    \E x \in q : x.hospital_pk = v.hospital_pk /\ x.last_updated = v.last_updated

\* variant: the facility insert does not see the existing row
StaticConflictNever(f, v) == FALSE

\* ON CONFLICT (hospital_pk): a row with this key exists
StaticConflict(f, v) ==
    \E y \in f : y.hospital_pk = v.hospital_pk

\* variant: the parent is found only when every facility row has the key
ParentIsEveryRow(f, v) ==
    f # {} /\ \A y \in f : y.hospital_pk = v.hospital_pk

\* variant: HospitalQualityDetails has no foreign key
ParentNotChecked(f, v) == TRUE

\* the foreign key of HospitalQualityDetails: the parent row exists
ParentExists(f, v) ==
    \E y \in f : y.hospital_pk = v.hospital_pk

\* variant: ON CONFLICT (hospital_pk, last_updated) DO UPDATE, the new row
\* replacing the one already there
RECURSIVE ExecQualityUpsert(_, _, _, _, _)
ExecQualityUpsert(q, f, values, i, fault) ==
    IF i > Len(values) THEN [res |-> "ok", table |-> q]
    ELSE IF i = fault THEN [res |-> "error", table |-> q]
    ELSE IF ~ParentExists(f, values[i]) THEN [res |-> "fk", table |-> q]
    ELSE ExecQualityUpsert(
            {x \in q : ~(x.hospital_pk = values[i].hospital_pk
                         /\ x.last_updated = values[i].last_updated)} \cup {values[i]},
            f, values, i + 1, fault)

\* cur.executemany(quality_insert_query, values) from row i on, inside an open
\* transaction whose pending quality table is q; the database raises a
\* non-foreign-key error when it executes row number fault (0: never).
\* INSERT ... ON CONFLICT DO NOTHING skips a conflicting row before any
\* foreign-key check; a row that is inserted has its foreign key checked at once.
RECURSIVE ExecQuality(_, _, _, _, _)
ExecQuality(q, f, values, i, fault) ==
    IF i > Len(values) THEN [res |-> "ok", table |-> q]
    ELSE IF i = fault THEN [res |-> "error", table |-> q]
    ELSE IF QualityConflict(q, values[i]) THEN ExecQuality(q, f, values, i + 1, fault)
    ELSE IF ~ParentExists(f, values[i]) THEN [res |-> "fk", table |-> q]
    ELSE ExecQuality(q \cup {values[i]}, f, values, i + 1, fault)

\* cur.executemany(static_insert_query, values), likewise
RECURSIVE ExecStatic(_, _, _, _)
ExecStatic(f, values, i, fault) ==
    IF i > Len(values) THEN [res |-> "ok", table |-> f]
    ELSE IF i = fault THEN [res |-> "error", table |-> f]
    ELSE IF StaticConflict(f, values[i]) THEN ExecStatic(f, values, i + 1, fault)
    ELSE ExecStatic(f \cup {values[i]}, values, i + 1, fault)

\* variant: the rows inserted before the exception stay (no rollback)
TransactionKeepsPartial(before, r) == r.table

\* variant: the block's work is never committed
TransactionNeverCommits(before, r) == before

\* with conn.transaction(): the block's work is committed when the block ends
\* normally and rolled back when an exception leaves it
Transaction(before, r) == IF r.res = "ok" THEN r.table ELSE before

(* ---------------------------- the loader ------------------------------ *)

VARIABLES
    facility,    \* table HospitalSpecificDetails (committed rows)
    quality,     \* table HospitalQualityDetails (committed rows)
    data,        \* the processed DataFrame handed to batch_insert_cms_data
    batch_size,  \* its batch_size argument
    row_index,   \* the loop variable of the for loop
    pc,          \* "attempt", "backfill", "retry", "done" (returned), "raised" (an exception left the function)
    printed,     \* the batch numbers of the "Error in batch" lines printed, in order
    outcome,     \* how each finished window of this call ended, in order
    txlog,       \* the transactions this call has run, in order
    pre,         \* the tables as each window of this call found them
    faults,      \* non-foreign-key database errors raised so far
    rerun,       \* the script has been run a second time
    first        \* what the first invocation was given and what it left

\* process_cms_data, which is studied on raw frames of its own
VARIABLES
    raw,         \* the DataFrame read from the CSV file, columns renamed
    frame,       \* the local variable data of process_cms_data
    ppc          \* where process_cms_data is: "renamed", "filtered", "emergency", "rated", "returned", "raised"

prevars == <<raw, frame, ppc>>

vars == <<facility, quality, data, batch_size, row_index, pc, printed, outcome,
          txlog, pre, faults, rerun, first, raw, frame, ppc>>

\* range(start, stop, step) as the sequence of its values
RECURSIVE Range(_, _, _)
Range(start, stop, step) ==
    IF start >= stop THEN <<>> ELSE <<start>> \o Range(start + step, stop, step)

\* variant: the slice takes one row too many
SliceInclusive(df, lo, hi) ==
    LET top == IF hi + 1 < Len(df) THEN hi + 1 ELSE Len(df)
    IN  IF lo >= top THEN <<>> ELSE [i \in 1..(top - lo) |-> df[lo + i]]

\* df[lo:hi], positions counted from 0, hi clipped to the length
Slice(df, lo, hi) ==
    LET top == IF hi < Len(df) THEN hi ELSE Len(df)
    IN  IF lo >= top THEN <<>> ELSE [i \in 1..(top - lo) |-> df[lo + i]]

\* batch_df of the current iteration
BatchDf == Slice(data, row_index, row_index + batch_size)

\* variant: the batch number counted from 0
BatchNoFromZero == row_index \div batch_size

\* (row_index // batch_size) + 1
BatchNo == (row_index \div batch_size) + 1

\* the for loop takes the next value of range(0, len(data), batch_size), or
\* the range is exhausted and the function returns
NextIteration ==
    LET rest == Range(row_index + batch_size, Len(data), batch_size)
    IN  IF rest # <<>>
        THEN /\ row_index' = Head(rest)
             /\ pc' = "attempt"
             /\ pre' = Append(pre, [facility |-> facility', quality |-> quality'])
        ELSE /\ row_index' = row_index
             /\ pc' = "done"
             /\ pre' = pre

\* the faults the database may raise in a transaction over values
FaultPoints(values) == IF faults < MaxFaults THEN 0..Len(values) ELSE {0}

Logged(kind, values, r) ==
    Append(txlog, [batch |-> BatchNo, kind |-> kind, values |-> values, res |-> r.res])

Init ==
    /\ facility \in SUBSET {[hospital_pk |-> k, hospital_name |-> KnownName] : k \in Keys}
    /\ quality = {}
    /\ \E d \in Dates : data \in DataFrames(d)
    /\ batch_size \in BatchSizes
    /\ row_index = 0
    /\ pc = IF Len(data) > 0 THEN "attempt" ELSE "done"
    /\ printed = <<>>
    /\ outcome = <<>>
    /\ txlog = <<>>
    /\ pre = IF Len(data) > 0 THEN <<[facility |-> facility, quality |-> quality]>> ELSE <<>>
    /\ faults = 0
    /\ rerun = FALSE
    /\ first = [ended |-> FALSE]
    /\ raw = <<>>
    /\ frame = <<>>
    /\ ppc = "returned"

\* variant: a failure in the recovery path starts the recovery again
RecoverAgain ==
    /\ pc' = "backfill"
    /\ UNCHANGED <<outcome, row_index, pre>>

\* an exception raised inside the except ForeignKeyViolation block: the
\* except Exception clause of the same try statement does not catch it, so it
\* leaves the for loop and the function
RaisedInHandler ==
    /\ pc' = "raised"
    /\ UNCHANGED <<outcome, row_index, pre>>

\* lines 141-144, 146-149, 174-175: the initial insert of the window
Attempt ==
    /\ pc = "attempt"
    /\ \E fault \in FaultPoints(QualityList(BatchDf)) :
         LET values == QualityList(BatchDf)
             r == ExecQuality(quality, facility, values, 1, fault)
         IN  /\ quality' = Transaction(quality, r)
             /\ facility' = facility
             /\ txlog' = Logged("attempt", values, r)
             /\ faults' = IF r.res = "error" THEN faults + 1 ELSE faults
             /\ IF r.res = "ok"
                THEN /\ outcome' = Append(outcome, "DONE")
                     /\ printed' = printed
                     /\ NextIteration
                ELSE IF r.res = "fk"
                THEN /\ pc' = "backfill"
                     /\ UNCHANGED <<outcome, printed, row_index, pre>>
                ELSE /\ outcome' = Append(outcome, "FAILED")
                     /\ printed' = Append(printed, BatchNo)
                     /\ NextIteration
    /\ UNCHANGED <<data, batch_size, rerun, first, raw, frame, ppc>>

\* lines 152-167: the facility rows of the whole window, inside the
\* except ForeignKeyViolation block; an exception raised here is not caught
\* by the except Exception clause of the same try statement
Backfill ==
    /\ pc = "backfill"
    /\ \E fault \in FaultPoints(StaticList(BatchDf)) :
         LET values == StaticList(BatchDf)
             r == ExecStatic(facility, values, 1, fault)
         IN  /\ facility' = Transaction(facility, r)
             /\ quality' = quality
             /\ txlog' = Logged("backfill", values, r)
             /\ faults' = IF r.res = "error" THEN faults + 1 ELSE faults
             /\ IF r.res = "ok"
                THEN /\ pc' = "retry"
                     /\ UNCHANGED <<outcome, row_index, pre>>
                ELSE RaisedInHandler
    /\ UNCHANGED <<data, batch_size, printed, rerun, first, raw, frame, ppc>>

\* lines 169-172: the second insert of the window, inside the same except block
Retry ==
    /\ pc = "retry"
    /\ \E fault \in FaultPoints(QualityList(BatchDf)) :
         LET values == QualityList(BatchDf)
             r == ExecQuality(quality, facility, values, 1, fault)
         IN  /\ quality' = Transaction(quality, r)
             /\ facility' = facility
             /\ txlog' = Logged("retry", values, r)
             /\ faults' = IF r.res = "error" THEN faults + 1 ELSE faults
             /\ IF r.res = "ok"
                THEN /\ outcome' = Append(outcome, "DONE-AFTER-BACKFILL")
                     /\ NextIteration
                ELSE RaisedInHandler
    /\ UNCHANGED <<data, batch_size, printed, rerun, first, raw, frame, ppc>>

\* lines 178-205: the script is run again against the same database
Rerun ==
    /\ pc \in {"done", "raised"}
    /\ ~rerun
    /\ rerun' = TRUE
    /\ first' = [ended |-> TRUE, data |-> data, batch_size |-> batch_size,
                 backfilled |-> (\E i \in 1..Len(txlog) : txlog[i].kind = "backfill"),
                 facility |-> facility, quality |-> quality]
    /\ \E d \in Dates : data' = [i \in 1..Len(data) |-> [data[i] EXCEPT !.last_updated = d]]
    /\ batch_size' \in BatchSizes
    /\ row_index' = 0
    /\ pc' = IF Len(data') > 0 THEN "attempt" ELSE "done"
    /\ printed' = <<>>
    /\ outcome' = <<>>
    /\ txlog' = <<>>
    /\ pre' = IF Len(data') > 0 THEN <<[facility |-> facility, quality |-> quality]>> ELSE <<>>
    /\ UNCHANGED <<facility, quality, faults, raw, frame, ppc>>

\* one call of batch_insert_cms_data
Next == Attempt \/ Backfill \/ Retry

Spec == Init /\ [][Next]_vars

\* the script run once and then once more on the same file
NextRerun == Attempt \/ Backfill \/ Retry \/ Rerun

SpecRerun == Init /\ [][NextRerun]_vars

(* ------------------------- process_cms_data -------------------------- *)

\* most rows of a raw frame
MaxRows == 2

\* a str is the sequence of its characters; a character outside ASCII is
\* written by its code point: U+0663 ARABIC-INDIC DIGIT THREE, U+00B2
\* SUPERSCRIPT TWO, U+00BD VULGAR FRACTION ONE HALF
FacilityIds ==
    {<<"0", "1">>,
     <<"0", "1", "0", "0", "0", "1">>,
     <<"0", "1", "0", "0", "0", "1", "F">>}

EmergencyTexts ==
    {<<"Y", "e", "s">>, <<"Y", "E", "S">>, <<"y", "e", "s">>,
     <<"N", "o">>, <<"y", "e", "s", " ">>, <<>>}

RatingTexts ==
    {<<"4">>, <<"0", "5">>, <<"1", "2">>, <<>>, <<"-", "1">>, <<"1", ".", "5">>,
     <<"N", "o", "t", " ", "A", "v", "a", "i", "l", "a", "b", "l", "e">>,
     <<"U+0663">>, <<"U+00B2">>, <<"U+00BD">>}

RawRow(id, e, r) ==
    [hospital_pk |-> id, emergency_services |-> e, hospital_overall_rating |-> r]

\* the rows a CSV file may hold: every key with every emergency text, and
\* every key with every rating text
RawRows ==
    {RawRow(id, e, <<"4">>) : id \in FacilityIds, e \in EmergencyTexts}
    \cup {RawRow(id, <<"Y", "e", "s">>, r) : id \in FacilityIds, r \in RatingTexts}

\* the frame of the rows f, each row with its index label (0, 1, ...)
RawFrame(f) == [i \in 1..Len(f) |-> [index |-> i - 1] @@ f[i]]

\* variant: the key must be shorter than 6 characters
ValidPkShorter(x) == Len(x) < 6

\* lambda x: True if len(x) <= 6 else False
ValidPk(x) == Len(x) <= 6

\* str.lower() of one character
LowerChar(c) ==
    CASE c = "Y" -> "y" [] c = "E" -> "e" [] c = "S" -> "s" [] c = "N" -> "n"
      [] c = "A" -> "a" [] c = "F" -> "f" [] OTHER -> c

\* variant: the text is compared as it is
NotLowered(x) == x

\* x.lower()
Lower(x) == [i \in 1..Len(x) |-> LowerChar(x[i])]

\* lambda x: True if x.lower() == 'yes' else False
EmergencyFlag(x) == Lower(x) = <<"y", "e", "s">>

\* the characters int() reads as decimal digits, with their values
DecimalValue ==
    [c \in {"0", "1", "2", "3", "4", "5", "6", "7", "8", "9", "U+0663"} |->
        CASE c = "0" -> 0 [] c = "1" -> 1 [] c = "2" -> 2 [] c = "3" -> 3 [] c = "4" -> 4
          [] c = "5" -> 5 [] c = "6" -> 6 [] c = "7" -> 7 [] c = "8" -> 8 [] c = "9" -> 9
          [] c = "U+0663" -> 3]

\* the characters with the Unicode numeric property: the decimal digits, and
\* others such as superscript two and the fraction one half
NumericChars == DOMAIN DecimalValue \cup {"U+00B2", "U+00BD"}

\* x.isnumeric(): at least one character, all of them numeric
IsNumeric(x) == Len(x) > 0 /\ \A i \in 1..Len(x) : x[i] \in NumericChars

\* what the rating lambda gives: an int, np.nan, or a ValueError raised
IntValue(n) == [kind |-> "int", value |-> n]
NaN == [kind |-> "nan", value |-> 0]
ValueError == [kind |-> "ValueError", value |-> 0]

\* int(x) for a text without sign or blanks: its value in base 10, or
\* ValueError when a character is no decimal digit
RECURSIVE IntOf(_, _)
IntOf(x, acc) ==
    IF x = <<>> THEN IntValue(acc)
    ELSE IF Head(x) \notin DOMAIN DecimalValue THEN ValueError
    ELSE IntOf(Tail(x), 10 * acc + DecimalValue[Head(x)])

\* lambda x: int(x) if x.isnumeric() else np.nan
Rating(x) == IF IsNumeric(x) THEN IntOf(x, 0) ELSE NaN

\* the state of the loader while process_cms_data is studied
LoaderIdle ==
    /\ facility = {} /\ quality = {} /\ data = <<>> /\ batch_size = 1
    /\ row_index = 0 /\ pc = "done" /\ printed = <<>> /\ outcome = <<>>
    /\ txlog = <<>> /\ pre = <<>> /\ faults = 0 /\ rerun = FALSE
    /\ first = [ended |-> FALSE]

loadervars == <<facility, quality, data, batch_size, row_index, pc, printed,
                outcome, txlog, pre, faults, rerun, first>>

\* line 62: the frame after data.rename
InitPre ==
    /\ LoaderIdle
    /\ \E n \in 0..MaxRows : \E f \in [1..n -> RawRows] : raw = RawFrame(f)
    /\ frame = raw
    /\ ppc = "renamed"

\* lines 66-69: the valid_pk column and the rows that have it True
FilterPk ==
    /\ ppc = "renamed"
    /\ frame' = SelectSeq([i \in 1..Len(frame) |->
                              [valid_pk |-> ValidPk(frame[i].hospital_pk)] @@ frame[i]],
                          LAMBDA row : row.valid_pk)
    /\ ppc' = "filtered"
    /\ UNCHANGED <<raw, loadervars>>

\* lines 71-73: emergency_services to a boolean
ConvertEmergency ==
    /\ ppc = "filtered"
    /\ frame' = [i \in 1..Len(frame) |->
                    [frame[i] EXCEPT !.emergency_services = EmergencyFlag(@)]]
    /\ ppc' = "emergency"
    /\ UNCHANGED <<raw, loadervars>>

\* lines 74-76: hospital_overall_rating to an integer or NaN; an exception
\* raised by the lambda leaves process_cms_data
ConvertRating ==
    /\ ppc = "emergency"
    /\ IF \E i \in 1..Len(frame) : Rating(frame[i].hospital_overall_rating) = ValueError
       THEN /\ ppc' = "raised"
            /\ frame' = frame
       ELSE /\ ppc' = "rated"
            /\ frame' = [i \in 1..Len(frame) |->
                            [frame[i] EXCEPT !.hospital_overall_rating = Rating(@)]]
    /\ UNCHANGED <<raw, loadervars>>

\* lines 78-83: the columns of interest (valid_pk is not one), and return
SelectColumns ==
    /\ ppc = "rated"
    /\ frame' = [i \in 1..Len(frame) |->
                    [index |-> frame[i].index,
                     hospital_pk |-> frame[i].hospital_pk,
                     emergency_services |-> frame[i].emergency_services,
                     hospital_overall_rating |-> frame[i].hospital_overall_rating]]
    /\ ppc' = "returned"
    /\ UNCHANGED <<raw, loadervars>>

NextPre == FilterPk \/ ConvertEmergency \/ ConvertRating \/ SelectColumns

\* one call of process_cms_data
SpecPre == InitPre /\ [][NextPre]_vars

(* ------------------------- derived quantities -------------------------- *)

Min(a, b) == IF a < b THEN a ELSE b

\* the rows of window K (K = 1, 2, ...) as the partitioning defines them
WindowRows(K) ==
    SubSeq(data, (K - 1) * batch_size + 1, Min(K * batch_size, Len(data)))

\* the transactions this call ran for window K
TxOf(K) == SelectSeq(txlog, LAMBDA t : t.batch = K)

\* window K of this call is over: it ended, or an exception left the function in it
Over(K) == K <= Len(outcome) \/ (pc = "raised" /\ K = Len(pre))

\* the tables as window K left them
Post(K) ==
    IF K < Len(pre) THEN pre[K + 1] ELSE [facility |-> facility, quality |-> quality]

HasKey(f, k) == \E y \in f : y.hospital_pk = k

HasPair(q, k, d) == \E x \in q : x.hospital_pk = k /\ x.last_updated = d

NoError(K) == \A i \in 1..Len(TxOf(K)) : TxOf(K)[i].res # "error"

(* ------------------------------ claims --------------------------------- *)

\* C1: in every committed state of the database, every row of
\* HospitalQualityDetails has a row of HospitalSpecificDetails with the same
\* hospital_pk, whatever the input, the batch size and the failures.
ReferentialIntegrity ==
    \A x \in quality : \E y \in facility : y.hospital_pk = x.hospital_pk

\* C1 witness: a second run has ended after a foreign-key violation, with an
\* injected error behind it and quality rows committed
ReferentialIntegrityWitness ==
    /\ rerun /\ pc = "done" /\ faults > 0
    /\ quality # {}
    /\ \E i \in 1..Len(txlog) : txlog[i].res = "fk"

\* C2: a window that finds some of its hospital_pk without a facility row and
\* meets no non-foreign-key error ends DONE-AFTER-BACKFILL, with a facility
\* row for each of its keys and a quality row for each of its (key, date) pairs.
ForeignKeyRecovery ==
    \A K \in 1..Len(pre) :
        LET w == WindowRows(K)
        IN  (/\ Over(K)
             /\ NoError(K)
             /\ \E i \in 1..Len(w) : ~HasKey(pre[K].facility, w[i].hospital_pk))
            => /\ K <= Len(outcome)
               /\ outcome[K] = "DONE-AFTER-BACKFILL"
               /\ \A i \in 1..Len(w) :
                     /\ HasKey(Post(K).facility, w[i].hospital_pk)
                     /\ HasPair(Post(K).quality, w[i].hospital_pk, w[i].last_updated)

\* C2 witness: a window of two rows with different keys, only the second of
\* them missing, has been recovered
ForeignKeyRecoveryWitness ==
    \E K \in 1..Len(outcome) :
        LET w == WindowRows(K)
        IN  /\ outcome[K] = "DONE-AFTER-BACKFILL"
            /\ Len(w) = 2
            /\ w[1].hospital_pk # w[2].hospital_pk
            /\ HasKey(pre[K].facility, w[1].hospital_pk)
            /\ ~HasKey(pre[K].facility, w[2].hospital_pk)

\* C3: a second run on the same rows and load date, with no injected error in
\* either run, leaves both tables as the first run left them, with one row per
\* key and per (key, date) pair, and every window of it ends DONE.
Idempotence ==
    (rerun /\ faults = 0 /\ data = first.data)
    => /\ facility = first.facility
       /\ quality = first.quality
       /\ \A x, y \in facility : x.hospital_pk = y.hospital_pk => x = y
       /\ \A x, y \in quality :
             (x.hospital_pk = y.hospital_pk /\ x.last_updated = y.last_updated) => x = y
       /\ pc # "raised"
       /\ \A K \in 1..Len(outcome) : outcome[K] = "DONE"

\* C3 witness: the second run, with another batch size, has gone through a
\* file that names the same hospital twice with different values and whose
\* first run needed a backfill
IdempotenceWitness ==
    /\ rerun /\ faults = 0 /\ data = first.data /\ pc = "done"
    /\ Len(data) = MaxLen
    /\ first.batch_size # batch_size
    /\ first.facility # {} /\ quality # {}
    /\ \E i, j \in 1..Len(data) :
          /\ data[i].hospital_pk = data[j].hospital_pk
          /\ data[i].hospital_overall_rating # data[j].hospital_overall_rating
    /\ first.backfilled

\* C4 (as claimed): a window whose backfill or retry transaction failed ends
\* FAILED with its error printed, and the exception does not leave
\* batch_insert_cms_data.
RecoveryFailureContained ==
    \A K \in 1..Len(pre) :
        (\E i \in 1..Len(TxOf(K)) :
            TxOf(K)[i].kind \in {"backfill", "retry"} /\ TxOf(K)[i].res # "ok")
        => /\ pc # "raised"
           /\ K <= Len(outcome)
           /\ outcome[K] = "FAILED"
           /\ \E j \in 1..Len(printed) : printed[j] = K

\* the transaction the step has just run
LastTx == txlog'[Len(txlog')]

\* C5: when the initial insert of window K raises a non-foreign-key error, the
\* step leaves both tables as they were, the window ends FAILED with its
\* 1-based number printed, neither backfill nor retry runs for it, and the
\* loop goes on to the initial insert of window K+1 (or returns after the
\* last window) with nothing but the loop variable changed.
AttemptErrorIsolated ==
    [][(pc = "attempt" /\ Len(txlog') = Len(txlog) + 1 /\ LastTx.res = "error")
       => LET K == Len(outcome) + 1
              N == (Len(data) + batch_size - 1) \div batch_size
          IN  /\ facility' = facility /\ quality' = quality
              /\ data' = data /\ batch_size' = batch_size
              /\ outcome' = Append(outcome, "FAILED")
              /\ printed' = Append(printed, K)
              /\ Len(SelectSeq(txlog', LAMBDA t : t.batch = K)) = 1
              /\ IF K < N
                 THEN /\ pc' = "attempt"
                      /\ row_index' = K * batch_size
                      /\ pre' = Append(pre, pre[K])
                 ELSE pc' = "done"]_vars

\* C5 witness: window 1 failed on a non-foreign-key error in its initial
\* insert, and window 2 went on to be recovered from a foreign-key violation
AttemptErrorIsolatedWitness ==
    /\ Len(outcome) >= 2
    /\ outcome[1] = "FAILED" /\ outcome[2] = "DONE-AFTER-BACKFILL"
    /\ printed = <<1>>
    /\ Len(TxOf(1)) = 1

\* C6: the transactions of a window are a prefix of attempt, backfill, retry;
\* the backfill runs only after the attempt raised a foreign-key violation, the
\* retry only after the backfill committed, and nothing follows the retry.
SingleBoundedRetry ==
    \A K \in 1..Len(pre) :
        LET tx == TxOf(K)
            order == <<"attempt", "backfill", "retry">>
        IN  /\ Len(tx) <= 3
            /\ \A i \in 1..Len(tx) : tx[i].kind = order[i]
            /\ Len(tx) >= 2 => tx[1].res = "fk"
            /\ Len(tx) = 3 => tx[2].res = "ok"
            /\ (Over(K) /\ Len(tx) = 1) => tx[1].res # "fk"

\* C6 witness: the function was left by a failed retry
SingleBoundedRetryWitness ==
    /\ pc = "raised"
    /\ Len(TxOf(Len(pre))) = 3
    /\ TxOf(Len(pre))[3].res = "error"

\* C7: range(0, n, b) has ceil(n/b) values, the slice taken at its K-th value
\* is the contiguous rows (K-1)*b+1 .. min(K*b, n), the loop is at the value of
\* the window it is working on and returns after the last one, every
\* transaction carries the rows of exactly its own window, and the
\* transactions of a window all come before those of the next.
Partitioning ==
    LET n == Len(data)
        b == batch_size
        starts == Range(0, n, b)
        N == Len(starts)
    IN  /\ N = (n + b - 1) \div b
        /\ \A K \in 1..N : Slice(data, starts[K], starts[K] + b) = WindowRows(K)
        /\ \A p \in 1..n :
              Cardinality({K \in 1..N : (K - 1) * b + 1 <= p /\ p <= Min(K * b, n)}) = 1
        /\ Len(pre) <= N
        /\ pc = "done" => Len(outcome) = N
        /\ pc # "done" => (Len(pre) = Len(outcome) + 1 /\ row_index = starts[Len(pre)])
        /\ \A j \in 1..Len(txlog) :
              LET t == txlog[j]
              IN  /\ t.batch \in 1..Len(pre)
                  /\ t.values = IF t.kind = "backfill"
                                THEN StaticList(WindowRows(t.batch))
                                ELSE QualityList(WindowRows(t.batch))
                  /\ j > 1 => txlog[j - 1].batch <= t.batch

\* C7 witness: three rows in batches of two, both windows done, the second
\* one short and after a backfill
PartitioningWitness ==
    /\ Len(data) = 3 /\ batch_size = 2 /\ pc = "done"
    /\ Len(outcome) = 2
    /\ Len(txlog) >= 4
    /\ Len(txlog[Len(txlog)].values) = 1

PairsOf(rows) == {<<x.hospital_pk, x.last_updated>> : x \in rows}

\* C8: an observation insert (attempt or retry) that succeeds adds a row for
\* every (key, date) pair of its window that had none, and nothing else; one
\* that fails adds nothing; no quality row is ever removed or changed.
ObservationInsertAtomic ==
    [][(Len(txlog') = Len(txlog) + 1 /\ LastTx.kind \in {"attempt", "retry"})
       => LET values == {LastTx.values[i] : i \in 1..Len(LastTx.values)}
              added == quality' \ quality
          IN  /\ quality \subseteq quality'
              /\ added \subseteq values
              /\ IF LastTx.res = "ok"
                 THEN PairsOf(added) = PairsOf(values) \ PairsOf(quality)
                 ELSE added = {}]_vars

\* C8 witness: the last insert failed on its second row after its first row
\* had been insertable, and nothing of it is in the table
ObservationInsertAtomicWitness ==
    /\ txlog # <<>>
    /\ LET t == txlog[Len(txlog)]
       IN  /\ t.kind = "attempt" /\ t.res # "ok"
           /\ Len(t.values) = 2
           /\ HasKey(facility, t.values[1].hospital_pk)
           /\ ~HasPair(quality, t.values[1].hospital_pk, t.values[1].last_updated)

\* C9: when the retry of a window fails after its backfill committed, the
\* facility table keeps everything it had plus a row for every key of the
\* window, and the quality table is as the window found it.
RetryFailureKeepsBackfill ==
    \A K \in 1..Len(pre) :
        LET tx == TxOf(K)
            w == WindowRows(K)
        IN  (Len(tx) = 3 /\ tx[2].res = "ok" /\ tx[3].res # "ok")
            => /\ pre[K].facility \subseteq Post(K).facility
               /\ \A i \in 1..Len(w) : HasKey(Post(K).facility, w[i].hospital_pk)
               /\ Post(K).facility # pre[K].facility
               /\ Post(K).quality = pre[K].quality

\* C9 witness: a retry has failed on its second row after a backfill that
\* added two facility rows
RetryFailureKeepsBackfillWitness ==
    /\ pc = "raised"
    /\ LET K == Len(pre)
       IN  /\ Len(TxOf(K)) = 3
           /\ TxOf(K)[3].res = "error"
           /\ Cardinality(facility \ pre[K].facility) = 2

\* window K ended in an unrecoverable error
Unrecoverable(K) ==
    \/ (K <= Len(outcome) /\ outcome[K] = "FAILED")
    \/ (pc = "raised" /\ K = Len(pre))

BackfillCommitted(K) ==
    \E i \in 1..Len(TxOf(K)) : TxOf(K)[i].kind = "backfill" /\ TxOf(K)[i].res = "ok"

\* C10 (as claimed): a window that ended in an unrecoverable error has added
\* no row to either table.
FailedWindowAbsent ==
    \A K \in 1..Len(pre) : Unrecoverable(K) => Post(K) = pre[K]

\* C10 (amended): a window that ended in an unrecoverable error has added no
\* quality row; it has added no facility row either unless its backfill had
\* committed before the failure, and then the facility table holds what it
\* held plus rows of the window, one for each key of the window.
FailedWindowLeavesOnlyBackfill ==
    \A K \in 1..Len(pre) :
        LET w == WindowRows(K)
        IN  Unrecoverable(K)
            => /\ Post(K).quality = pre[K].quality
               /\ IF BackfillCommitted(K)
                  THEN /\ pre[K].facility \subseteq Post(K).facility
                       /\ Post(K).facility \ pre[K].facility
                            \subseteq {StaticValues(w[i]) : i \in 1..Len(w)}
                       /\ \A i \in 1..Len(w) : HasKey(Post(K).facility, w[i].hospital_pk)
                  ELSE Post(K).facility = pre[K].facility

\* C10 witness: a window failed in its initial insert on its second row, and a
\* later window failed in its retry
FailedWindowLeavesOnlyBackfillWitness ==
    /\ pc = "raised"
    /\ BackfillCommitted(Len(pre))
    /\ \E K \in 1..Len(outcome) : outcome[K] = "FAILED" /\ Len(WindowRows(K)) = 2

\* C11: a committed facility row stays as it is: every step keeps every
\* facility row, the table never holds two rows with one hospital_pk, and a
\* row a backfill adds is that of the first record of the window with its key.
FacilityImmutable ==
    [][/\ \A y \in facility : y \in facility'
       /\ \A x, y \in facility' : x.hospital_pk = y.hospital_pk => x = y
       /\ facility' # facility
          => \A z \in facility' \ facility :
                \E i \in 1..Len(LastTx.values) :
                    /\ LastTx.values[i] = z
                    /\ \A j \in 1..(i - 1) :
                          LastTx.values[j].hospital_pk # z.hospital_pk]_vars

\* C11 witness: in the second run a backfill committed for a window that
\* carried another name for a hospital already in the table, and a window
\* that named a new hospital twice with different names; the table has the
\* names it had
FacilityImmutableWitness ==
    /\ rerun
    /\ \E t \in 1..Len(txlog) :
          /\ txlog[t].kind = "backfill" /\ txlog[t].res = "ok"
          /\ \E i \in 1..Len(txlog[t].values) :
                /\ txlog[t].values[i] \notin facility
                /\ HasKey(first.facility, txlog[t].values[i].hospital_pk)
    /\ \E i, j \in 1..Len(data) :
          /\ i < j
          /\ data[i].hospital_pk = data[j].hospital_pk
          /\ data[i].hospital_name # data[j].hospital_name
          /\ data[i].hospital_name # KnownName
          /\ StaticValues(data[i]) \in facility

\* C12: the quality table never holds two rows with one (hospital_pk,
\* last_updated) pair and every step keeps every quality row as it is; an
\* insert whose rows all have their pair in the table already, the database
\* raising no other error, ends normally and leaves the table as it was.
ReloadIsNoOp ==
    [][/\ \A x \in quality : x \in quality'
       /\ \A x, y \in quality' :
             (x.hospital_pk = y.hospital_pk /\ x.last_updated = y.last_updated) => x = y
       /\ (/\ Len(txlog') = Len(txlog) + 1
           /\ LastTx.kind \in {"attempt", "retry"}
           /\ LastTx.res # "error"
           /\ \A i \in 1..Len(LastTx.values) :
                 HasPair(quality, LastTx.values[i].hospital_pk, LastTx.values[i].last_updated))
          => (LastTx.res = "ok" /\ quality' = quality)]_vars

\* C12 witness: the second run, on the date of the first, has inserted a
\* window whose pairs were all in the table, one of them with another rating
\* than the file gives it, and it ended DONE
ReloadIsNoOpWitness ==
    /\ rerun /\ data = first.data
    /\ Len(outcome) >= 1 /\ outcome[1] = "DONE"
    /\ LET w == QualityList(WindowRows(1))
       IN  /\ \A i \in 1..Len(w) : HasPair(first.quality, w[i].hospital_pk, w[i].last_updated)
           /\ \E i \in 1..Len(w) : w[i] \notin quality

\* the keys that have a facility row when window K starts, as the run's
\* history gives them: those in the table before the call and those of the
\* earlier windows that ended DONE-AFTER-BACKFILL
KnownBefore(K) ==
    {y.hospital_pk : y \in pre[1].facility}
    \cup UNION {{WindowRows(J)[i].hospital_pk : i \in 1..Len(WindowRows(J))} :
                   J \in {J \in 1..(K - 1) : outcome[J] = "DONE-AFTER-BACKFILL"}}

\* C16: a window whose keys were all in the facility table before the call or
\* were backfilled by an earlier window of the call runs a single
\* transaction, its initial insert, which raises no foreign-key violation; if
\* the database raises no other error it ends DONE.
BackfillVisibleLater ==
    \A K \in 1..Len(pre) :
        LET w == WindowRows(K)
            tx == TxOf(K)
        IN  (\A i \in 1..Len(w) : w[i].hospital_pk \in KnownBefore(K))
            => /\ \A t \in 1..Len(tx) : tx[t].kind = "attempt" /\ tx[t].res # "fk"
               /\ (Over(K) /\ NoError(K)) => outcome[K] = "DONE"

\* C16 witness: right after a window that was backfilled, a window ended DONE
\* that names a hospital with no facility row before the call, other
\* hospitals having one
BackfillVisibleLaterWitness ==
    \E K \in 2..Len(outcome) :
        /\ outcome[K] = "DONE"
        /\ outcome[K - 1] = "DONE-AFTER-BACKFILL"
        /\ \E i \in 1..Len(WindowRows(K)) :
              ~HasKey(pre[1].facility, WindowRows(K)[i].hospital_pk)
        /\ pre[1].facility # {}

\* C17: the facility table changes only in a backfill transaction that comes
\* right after the initial insert of the same window raised a foreign-key
\* violation; the initial insert itself, whatever its result, leaves it alone.
BackfillOnlyReactive ==
    [][/\ pc = "attempt" => facility' = facility
       /\ facility' # facility
          => /\ pc = "backfill"
             /\ Len(txlog') = Len(txlog) + 1
             /\ LastTx.kind = "backfill"
             /\ Len(txlog) >= 1
             /\ txlog[Len(txlog)].kind = "attempt"
             /\ txlog[Len(txlog)].res = "fk"
             /\ txlog[Len(txlog)].batch = LastTx.batch]_vars

\* C17 witness: the call returned with one window DONE and one FAILED, no
\* backfill, on a file that gives a hospital already in the table another
\* name, and the facility table is what it was
BackfillOnlyReactiveWitness ==
    /\ pc = "done"
    /\ \E K \in 1..Len(outcome) : outcome[K] = "DONE"
    /\ \E K \in 1..Len(outcome) : outcome[K] = "FAILED"
    /\ \A t \in 1..Len(txlog) : txlog[t].kind = "attempt"
    /\ facility = pre[1].facility
    /\ \E i \in 1..Len(data) :
          /\ HasKey(facility, data[i].hospital_pk)
          /\ StaticValues(data[i]) \notin facility

\* the raw row a row of the frame comes from
RawOf(row) == raw[row.index + 1]

RatingTotal ==
    /\ ppc # "raised"
    /\ ppc \in {"rated", "returned"}
       => \A i \in 1..Len(frame) :
             LET x == RawOf(frame[i]).hospital_overall_rating
                 y == frame[i].hospital_overall_rating
             IN  /\ y.kind \in {"int", "nan"}
                 /\ y.kind = "int" <=> IsNumeric(x)

\* C15: once emergency_services is converted, it is a boolean in every row,
\* True exactly for the texts y/Y, e/E, s/S of three characters.
EmergencyNormalized ==
    ppc \in {"emergency", "rated", "returned", "raised"}
    => \A i \in 1..Len(frame) :
          LET x == RawOf(frame[i]).emergency_services
              y == frame[i].emergency_services
          IN  /\ y \in BOOLEAN
              /\ y <=> (/\ Len(x) = 3
                        /\ x[1] \in {"y", "Y"}
                        /\ x[2] \in {"e", "E"}
                        /\ x[3] \in {"s", "S"})

\* C15 witness: the function returned True for YES and False for the empty text
EmergencyNormalizedWitness ==
    /\ ppc = "returned"
    /\ \E i \in 1..Len(frame) :
          /\ frame[i].emergency_services
          /\ RawOf(frame[i]).emergency_services = <<"Y", "E", "S">>
    /\ \E i \in 1..Len(frame) :
          /\ ~frame[i].emergency_services
          /\ RawOf(frame[i]).emergency_services = <<>>

====
